---- MODULE Spec2Model ----
(***************************************************************************)
(* Model of the educational chatbot backend (backend/main.py): the POST    *)
(* /chat and POST /analyze-question handlers, the GET /health and GET      *)
(* /model-info handlers, and the helpers they call.  Text is a sequence of *)
(* one-character strings so that lower(), strip(), the "in" operator and   *)
(* f-string concatenation are computed rather than assumed.                *)
(***************************************************************************)
EXTENDS Integers, Sequences, FiniteSets, TLC

\* ------------------------------------------------------------------------
\* Bounds of the explored inputs
\* ------------------------------------------------------------------------

\* longest conversation a /chat request carries (the window keeps 3)
MaxMsgs ==
  4

\* ------------------------------------------------------------------------
\* Configuration (main.py lines 28-48); floats are kept in tenths
\* ------------------------------------------------------------------------

MODEL_NAME ==
  "Qwen/Qwen2.5-1.5B-Instruct"

MAX_TOKENS ==
  512

TEMPERATURE ==
  5

TOP_P ==
  8

TOP_K ==
  30

\* the fixed system instruction (its opening sentence stands for the text)
SYSTEM_PROMPT ==
  <<"Y", "o", "u", " ", "a", "r", "e", " ", "a", "n", " ", "e", "d", "u", "c", "a", "t", "i", "o", "n", "a", "l", " ", "t", "u", "t", "o", "r", ".">>

\* ------------------------------------------------------------------------
\* Python values
\* ------------------------------------------------------------------------

\* Optional[T]: None is the empty tuple, a value v is <<v>>
None ==
  <<>>

Some(v) ==
  <<v>>

\* "x or d": x when x is truthy, d when x is None or zero
OrDefault(x, d) ==
  IF x = None \/ x = Some(0) THEN d ELSE x[1]

\* a pydantic Message instance: role and content are attributes
Message(role, content) ==
  [kind |-> "Message", role |-> role, content |-> content]

\* a plain dict literal {"role": ..., "content": ...}: keys, no attributes
Dict(role, content) ==
  [kind |-> "dict", role |-> role, content |-> content]

\* outcome of evaluating a block: it returns a value or raises an exception;
\* calls lists the collaborator calls made meanwhile
Return(v, calls) ==
  [ok |-> TRUE, val |-> v, exc |-> [type |-> "none", status |-> 0, msg |-> <<>>], calls |-> calls]

Raise(e, calls) ==
  [ok |-> FALSE, val |-> None, exc |-> e, calls |-> calls]

HTTPException(status_code, detail) ==
  [type |-> "HTTPException", status |-> status_code, msg |-> detail]

Exception(type, msg) ==
  [type |-> type, status |-> 0, msg |-> msg]

\* ------------------------------------------------------------------------
\* str methods
\* ------------------------------------------------------------------------

UpperCase ==
  <<"A", "B", "C", "D", "E", "F", "G", "H", "I", "J", "K", "L", "M", "N", "O", "P", "Q", "R", "S", "T", "U", "V", "W", "X", "Y", "Z">>

LowerCase ==
  <<"a", "b", "c", "d", "e", "f", "g", "h", "i", "j", "k", "l", "m", "n", "o", "p", "q", "r", "s", "t", "u", "v", "w", "x", "y", "z">>

\* str.lower() on one character
LowerChar(c) ==
  IF \E i \in 1..26 : UpperCase[i] = c
  THEN LowerCase[CHOOSE i \in 1..26 : UpperCase[i] = c]
  ELSE c

\* str.lower()
Lower(s) ==
  [i \in 1..Len(s) |-> LowerChar(s[i])]

\* str.__contains__: k occurs in s as a contiguous slice
Contains(s, k) ==
  \E i \in 1..(Len(s) - Len(k) + 1) : SubSeq(s, i, i + Len(k) - 1) = k

\* characters str.strip() removes
Whitespace ==
  {" ", "\t", "\n", "\r", "\f"}

RECURSIVE LStrip(_)
LStrip(s) ==
  IF s # <<>> /\ Head(s) \in Whitespace THEN LStrip(Tail(s)) ELSE s

RECURSIVE RStrip(_)
RStrip(s) ==
  IF s # <<>> /\ s[Len(s)] \in Whitespace THEN RStrip(SubSeq(s, 1, Len(s) - 1)) ELSE s

\* str.strip()
Strip(s) ==
  RStrip(LStrip(s))

\* ------------------------------------------------------------------------
\* Helper functions (main.py lines 109-127)
\* ------------------------------------------------------------------------

\* msg.role / msg.content: attribute access, defined on Message instances only
HasAttributes(msg) ==
  msg.kind = "Message"

format_messages_for_huggingface(messages) ==
  IF \E i \in 1..Len(messages) : ~HasAttributes(messages[i])
  THEN Raise(Exception("AttributeError", <<"'dict' object has no attribute 'role'">>), <<>>)
  ELSE Return(<<Dict("system", SYSTEM_PROMPT)>>
              \o [i \in 1..Len(messages) |-> Dict(messages[i].role, messages[i].content)], <<>>)

keywords ==
  << <<"s", "o", "l", "v", "e", " ", "t", "h", "i", "s">>,
     <<"a", "n", "s", "w", "e", "r", " ", "t", "h", "i", "s">>,
     <<"d", "o", " ", "m", "y", " ", "h", "o", "m", "e", "w", "o", "r", "k">>,
     <<"j", "u", "s", "t", " ", "t", "e", "l", "l", " ", "m", "e">>,
     <<"w", "h", "a", "t", "'", "s", " ", "t", "h", "e", " ", "a", "n", "s", "w", "e", "r">> >>

\* the keyword test without lower()
detect_case_sensitive(user_message) ==
  \E i \in 1..Len(keywords) : Contains(user_message, keywords[i])

detect_cheating_attempt(user_message) ==
  \E i \in 1..Len(keywords) : Contains(Lower(user_message), keywords[i])

GUIDE_PREFIX ==
  <<"[", "G", "U", "I", "D", "E", " ", "L", "E", "A", "R", "N", "I", "N", "G", "]", " ", "S", "t", "u", "d", "e", "n", "t", " ", "a", "s", "k", "i", "n", "g", " ", "f", "o", "r", " ", "d", "i", "r", "e", "c", "t", " ", "a", "n", "s", "w", "e", "r", ":", " ">>

add_educational_context(user_message) ==
  IF detect_cheating_attempt(user_message)
  THEN GUIDE_PREFIX \o user_message
  ELSE user_message

\* ------------------------------------------------------------------------
\* Data models (main.py lines 91-103)
\* ------------------------------------------------------------------------

\* ChatRequest: a field the body omits takes its default, a null stays None
ChatRequest(body) ==
  [messages    |-> body.messages,
   temperature |-> IF body.has_temperature THEN body.temperature ELSE Some(TEMPERATURE),
   max_tokens  |-> IF body.has_max_tokens THEN body.max_tokens ELSE Some(MAX_TOKENS)]

\* ChatResponse: model defaults to MODEL_NAME
ChatResponse(response_text, tokens_used) ==
  [response |-> response_text, tokens_used |-> tokens_used, model |-> MODEL_NAME]

\* ------------------------------------------------------------------------
\* The collaborator: what client.chat_completion does when it is called
\* ------------------------------------------------------------------------

UpstreamRaises ==
  [kind |-> "raises", choices |-> <<>>, usage |-> None]

UpstreamReturns(choices, usage) ==
  [kind |-> "returns", choices |-> choices, usage |-> usage]

\* the collaborator is not part of the request
UpstreamIdle ==
  [kind |-> "idle", choices |-> <<>>, usage |-> None]

\* a result is well formed when it has a first completion text and a count
WellFormed(up) ==
  /\ up.kind = "returns"
  /\ up.choices # <<>>
  /\ up.choices[1].content # None
  /\ up.usage # None

\* lines 178-187: read the reply out of the collaborator's result
extract(up, calls) ==
  IF up.choices = <<>>
  THEN Raise(Exception("IndexError", <<"list index out of range">>), calls)
  ELSE IF up.choices[1].content = None
  THEN Raise(Exception("AttributeError", <<"'NoneType' object has no attribute 'strip'">>), calls)
  ELSE IF up.usage = None
  THEN Raise(Exception("AttributeError", <<"'NoneType' object has no attribute 'completion_tokens'">>), calls)
  ELSE Return(ChatResponse(Strip(up.choices[1].content[1]), up.usage[1]), calls)

\* lines 170-176: the arguments are evaluated, then the call is made
chat_completion(formatted, request, up) ==
  IF ~formatted.ok
  THEN Raise(formatted.exc, <<>>)
  ELSE LET call == [messages    |-> formatted.val,
                    max_tokens  |-> OrDefault(request.max_tokens, MAX_TOKENS),
                    temperature |-> OrDefault(request.temperature, TEMPERATURE),
                    top_p       |-> TOP_P,
                    top_k       |-> TOP_K]
       IN  IF up.kind = "raises"
           THEN Raise(Exception("HfHubHTTPError", <<"upstream failure">>), <<call>>)
           ELSE extract(up, <<call>>)

\* ------------------------------------------------------------------------
\* POST /chat (main.py lines 142-193)
\* ------------------------------------------------------------------------

\* line 161: the trailing window
recent_messages(messages) ==
  IF Len(messages) > 3 THEN SubSeq(messages, Len(messages) - 2, Len(messages)) ELSE messages

\* lines 164-165: copy the window and replace its last element by a dict
modified_messages(messages, enhanced_message) ==
  LET recent == recent_messages(messages)
  IN  [recent EXCEPT ![Len(recent)] = Dict("user", enhanced_message)]

\* lines 149-187: the body of the try block
chat_try(request, up) ==
  IF request.messages = <<>>
  THEN Raise(HTTPException(400, <<"No messages provided">>), <<>>)
  ELSE LET last_message == request.messages[Len(request.messages)]
       IN  IF last_message.role # "user"
           THEN Raise(HTTPException(400, <<"Last message must be from user">>), <<>>)
           ELSE LET enhanced_message == add_educational_context(last_message.content)
                    modified == modified_messages(request.messages, enhanced_message)
                IN  chat_completion(format_messages_for_huggingface(modified), request, up)

\* a handler whose single except clause catches every exception
chat_except_catch_all(outcome) ==
  IF outcome.ok
  THEN outcome
  ELSE Raise(HTTPException(500, <<"Internal server error: ">> \o outcome.exc.msg), outcome.calls)

\* lines 189-193: HTTPException is re-raised, anything else becomes a 500
chat_except(outcome) ==
  IF outcome.ok \/ outcome.exc.type = "HTTPException"
  THEN outcome
  ELSE Raise(HTTPException(500, <<"Internal server error: ">> \o outcome.exc.msg), outcome.calls)

chat(request, up) ==
  chat_except(chat_try(request, up))

\* ------------------------------------------------------------------------
\* POST /analyze-question (main.py lines 195-214)
\* ------------------------------------------------------------------------

\* lines 202-211
analyze_question_try(request) ==
  IF request.messages = <<>>
  THEN Raise(HTTPException(400, <<"No messages provided">>), <<>>)
  ELSE LET last_message == request.messages[Len(request.messages)].content
           is_cheating == detect_cheating_attempt(last_message)
       IN  Return([is_direct_answer_request |-> is_cheating,
                   recommendation |-> IF is_cheating
                                      THEN "Reframe as learning opportunity"
                                      ELSE "Safe to answer educationally"], <<>>)

\* lines 212-214: every exception, HTTPException included, becomes a 500
analyze_question_except(outcome) ==
  IF outcome.ok
  THEN outcome
  ELSE Raise(HTTPException(500, outcome.exc.msg), outcome.calls)

analyze_question(request) ==
  analyze_question_except(analyze_question_try(request))

\* ------------------------------------------------------------------------
\* GET /health and GET /model-info (main.py lines 133-140, 216-223)
\* ------------------------------------------------------------------------

health_check ==
  Return([status |-> "healthy", model |-> MODEL_NAME, mode |-> "educational"], <<>>)

model_info ==
  Return([model_name |-> MODEL_NAME, mode |-> "Educational (Anti-Cheating)",
          system_prompt_active |-> TRUE], <<>>)

\* the framework turns a returned value into a 200 and a raised
\* HTTPException into a response carrying its status code
Respond(outcome) ==
  IF outcome.ok
  THEN [status |-> 200, body |-> outcome.val]
  ELSE [status |-> outcome.exc.status, body |-> [detail |-> outcome.exc.msg]]

\* ------------------------------------------------------------------------
\* Requests the clients send
\* ------------------------------------------------------------------------

Roles ==
  {"user", "assistant", "system"}

\* earlier turns of a conversation
HistoryMessages ==
  { Message("user", <<"W", "h", "a", "t", " ", "i", "s", " ", "a", " ", "c", "e", "l", "l", "?">>),
    Message("assistant", <<"T", "h", "i", "n", "k", " ", "o", "f", " ", "a", " ", "f", "a", "c", "t", "o", "r", "y", ".">>),
    Message("system", <<"B", "e", " ", "b", "r", "i", "e", "f", ".">>) }

\* texts of the newest message of a /chat conversation
ChatTexts ==
  { <<"W", "h", "a", "t", "'", "s", " ", "t", "h", "e", " ", "a", "n", "s", "w", "e", "r", " ", "t", "o", " ", "t", "h", "i", "s", " ", "h", "o", "m", "e", "w", "o", "r", "k", " ", "q", "u", "e", "s", "t", "i", "o", "n", "?">>,
    <<"W", "h", "a", "t", " ", "i", "s", " ", "2", " ", "+", " ", "2", "?">> }

RECURSIVE SeqsUpTo(_, _)
SeqsUpTo(S, n) ==
  IF n = 0 THEN {<<>>}
  ELSE LET shorter == SeqsUpTo(S, n - 1)
       IN  shorter \cup {Append(h, m) : h \in shorter, m \in S}

ChatConversations ==
  {<<>>} \cup {Append(h, Message(r, t)) :
                 h \in SeqsUpTo(HistoryMessages, MaxMsgs - 1), r \in Roles, t \in ChatTexts}

\* texts of the newest message of an /analyze-question conversation:
\* a phrase, possibly embedded in a longer word or sentence
Prefixes ==
  { <<>>, <<"r", "e">>, <<"I", "'", "l", "l", " ">> }

Phrases ==
  { <<"s", "o", "l", "v", "e", " ", "t", "h", "i", "s">>, <<"S", "O", "L", "V", "E", " ", "T", "H", "I", "S">>, <<"A", "n", "s", "w", "e", "r", " ", "T", "h", "i", "s">>, <<"d", "o", " ", "m", "y", " ", "h", "o", "m", "e", "w", "o", "r", "k">>,
    <<"J", "u", "s", "t", " ", "T", "e", "l", "l", " ", "M", "e">>, <<"W", "h", "a", "t", "'", "s", " ", "t", "h", "e", " ", "a", "n", "s", "w", "e", "r">>,
    <<"s", "o", "l", "v", "e", " ", " ", "t", "h", "i", "s">>, <<"w", "h", "a", "t", "s", " ", "t", "h", "e", " ", "a", "n", "s", "w", "e", "r">>, <<"j", "u", "s", "t", " ", "t", "e", "l", "l">>, <<"H", "o", "w", " ", "d", "o", "e", "s", " ", "p", "h", "o", "t", "o", "s", "y", "n", "t", "h", "e", "s", "i", "s", " ", "w", "o", "r", "k", "?">> }

Suffixes ==
  { <<>>, <<"t", "l", "e">>, <<" ", "n", "o", "w", "?">> }

AnalyzeTexts ==
  {p \o c \o s : p \in Prefixes, c \in Phrases, s \in Suffixes}

AnalyzeConversations ==
  {<<>>} \cup {Append(h, Message(r, t)) :
                 h \in SeqsUpTo(HistoryMessages, 1), r \in Roles, t \in AnalyzeTexts}

\* a sampling field is omitted, null, zero or a positive value
TemperatureInputs ==
  {[has |-> FALSE, value |-> None], [has |-> TRUE, value |-> None],
   [has |-> TRUE, value |-> Some(0)], [has |-> TRUE, value |-> Some(3)]}

MaxTokensInputs ==
  {[has |-> FALSE, value |-> None], [has |-> TRUE, value |-> None],
   [has |-> TRUE, value |-> Some(0)], [has |-> TRUE, value |-> Some(64)]}

ChatBodies ==
  {[messages |-> m, has_temperature |-> t.has, temperature |-> t.value,
    has_max_tokens |-> k.has, max_tokens |-> k.value] :
     m \in ChatConversations, t \in TemperatureInputs, k \in MaxTokensInputs}

ReplyTexts ==
  { <<" ", "\t", "T", "r", "y", " ", "d", "r", "a", "w", "i", "n", "g", " ", "i", "t", ".", "\n">>, <<"o", "k">> }

UpstreamResults ==
  {UpstreamRaises}
  \cup {UpstreamReturns(<<>>, Some(7))}
  \cup {UpstreamReturns(<<[content |-> None]>>, Some(7))}
  \cup {UpstreamReturns(<<[content |-> Some(t)]>>, None) : t \in ReplyTexts}
  \cup {UpstreamReturns(<<[content |-> Some(t)]>>, Some(7)) : t \in ReplyTexts}

\* a request without a body
NoBody ==
  [messages |-> <<>>, has_temperature |-> FALSE, temperature |-> None,
   has_max_tokens |-> FALSE, max_tokens |-> None]

\* ------------------------------------------------------------------------
\* State: the request being answered and what came of it.  The handlers
\* run to completion one at a time and the service keeps nothing between
\* requests: when the response has gone out the request's scope is dropped.
\* ------------------------------------------------------------------------

VARIABLES endpoint, body, upstream, response, calls

vars ==
  <<endpoint, body, upstream, response, calls>>

Init ==
  /\ endpoint = "idle"
  /\ body = NoBody
  /\ upstream = UpstreamIdle
  /\ response = [status |-> 0, body |-> [detail |-> <<>>]]
  /\ calls = <<>>

Chat ==
  /\ endpoint = "idle"
  /\ \E b \in ChatBodies, up \in UpstreamResults :
    LET outcome == chat(ChatRequest(b), up)
    IN  /\ endpoint' = "chat"
        /\ body' = b
        /\ upstream' = up
        /\ response' = Respond(outcome)
        /\ calls' = outcome.calls

AnalyzeQuestion ==
  /\ endpoint = "idle"
  /\ \E m \in AnalyzeConversations :
    LET b == [NoBody EXCEPT !.messages = m]
        outcome == analyze_question(ChatRequest(b))
    IN  /\ endpoint' = "analyze-question"
        /\ body' = b
        /\ upstream' = UpstreamIdle
        /\ response' = Respond(outcome)
        /\ calls' = outcome.calls

Health ==
  /\ endpoint = "idle"
  /\ endpoint' = "health"
  /\ body' = NoBody
  /\ upstream' = UpstreamIdle
  /\ response' = Respond(health_check)
  /\ calls' = health_check.calls

ModelInfo ==
  /\ endpoint = "idle"
  /\ endpoint' = "model-info"
  /\ body' = NoBody
  /\ upstream' = UpstreamIdle
  /\ response' = Respond(model_info)
  /\ calls' = model_info.calls

\* the response has been sent: nothing of the request is kept
Complete ==
  /\ endpoint # "idle"
  /\ endpoint' = "idle"
  /\ body' = NoBody
  /\ upstream' = UpstreamIdle
  /\ response' = [status |-> 0, body |-> [detail |-> <<>>]]
  /\ calls' = <<>>

Next ==
  \/ Chat
  \/ AnalyzeQuestion
  \/ Health
  \/ ModelInfo
  \/ Complete

Spec ==
  Init /\ [][Next]_vars

\* the request as the handler sees it
request ==
  ChatRequest(body)

\* ------------------------------------------------------------------------
\* Properties
\* ------------------------------------------------------------------------

messages ==
  request.messages

LastMessage ==
  messages[Len(messages)]

\* a /chat request that passes validation has been handled
ValidChat ==
  /\ endpoint = "chat"
  /\ messages # <<>>
  /\ LastMessage.role = "user"

\* a request whose conversation is empty or does not end with a user turn
Malformed ==
  \/ messages = <<>>
  \/ LastMessage.role # "user"

\* the payload of the one collaborator call
Payload ==
  calls[1].messages

Min(a, b) ==
  IF a < b THEN a ELSE b

\* C1: a valid /chat request whose collaborator result is well formed is
\* answered 200 with the stripped first completion text, the completion
\* token count and the configured model name.
C1_ValidChatReturnsReply ==
  (ValidChat /\ WellFormed(upstream)) =>
    /\ response.status = 200
    /\ response.body.response = Strip(upstream.choices[1].content[1])
    /\ response.body.tokens_used = upstream.usage[1]
    /\ response.body.model = MODEL_NAME

\* C2: a /chat request with no messages, or whose last message is not a
\* user message, is answered 400 (not 200, not 500).
C2_MalformedChatIs400 ==
  (endpoint = "chat" /\ Malformed) => response.status = 400

C2_Witness ==
  /\ endpoint = "chat"
  /\ Len(messages) = 2
  /\ messages[1].role = "user"
  /\ LastMessage.role = "assistant"
  /\ response.status = 400
  /\ response.body.detail = <<"Last message must be from user">>

\* C3: /analyze-question answers 400 to a request with no messages or whose
\* last message is not a user message.
C3_MalformedAnalyzeIs400 ==
  (endpoint = "analyze-question" /\ Malformed) => response.status = 400

\* C4: for a valid /chat conversation of n messages the conversation part of
\* the payload is the trailing min(n, 3) messages in order (all roles, and
\* the contents of all but the last).
C4_PayloadIsTrailingWindow ==
  ValidChat =>
    /\ Len(calls) = 1
    /\ LET n == Len(messages)
           w == Min(n, 3)
           conversation == Tail(Payload)
       IN  /\ Len(conversation) = w
           /\ \A i \in 1..w : conversation[i].role = messages[n - w + i].role
           /\ \A i \in 1..(w - 1) : conversation[i].content = messages[n - w + i].content

\* C5: for a valid /chat request a payload is handed to the collaborator,
\* its first entry is the system instruction, and it has at most 1 + 3
\* entries.
C5_PayloadStartsWithSystemPrompt ==
  ValidChat =>
    /\ Len(calls) = 1
    /\ Payload[1].role = "system"
    /\ Payload[1].content = SYSTEM_PROMPT
    /\ Len(Payload) <= 1 + 3

\* C6: for a valid /chat request the last payload entry has role "user" and
\* carries the marker followed by the original text when the text is
\* classified as a direct-answer request, the original text otherwise.
C6_LastEntryAnnotated ==
  ValidChat =>
    /\ Len(calls) = 1
    /\ Payload[Len(Payload)].role = "user"
    /\ Payload[Len(Payload)].content =
         IF detect_cheating_attempt(LastMessage.content)
         THEN <<"[", "G", "U", "I", "D", "E", " ", "L", "E", "A", "R", "N", "I", "N", "G", "]", " ", "S", "t", "u", "d", "e", "n", "t", " ", "a", "s", "k", "i", "n", "g", " ", "f", "o", "r", " ", "d", "i", "r", "e", "c", "t", " ", "a", "n", "s", "w", "e", "r", ":", " ">> \o LastMessage.content
         ELSE LastMessage.content

\* the five trigger phrases
Triggers ==
  { <<"s", "o", "l", "v", "e", " ", "t", "h", "i", "s">>, <<"a", "n", "s", "w", "e", "r", " ", "t", "h", "i", "s">>, <<"d", "o", " ", "m", "y", " ", "h", "o", "m", "e", "w", "o", "r", "k">>, <<"j", "u", "s", "t", " ", "t", "e", "l", "l", " ", "m", "e">>, <<"w", "h", "a", "t", "'", "s", " ", "t", "h", "e", " ", "a", "n", "s", "w", "e", "r">> }

\* k stands in t at position i, letter case set aside
OccursAt(t, k, i) ==
  /\ i + Len(k) - 1 <= Len(t)
  /\ \A j \in 1..Len(k) : LowerChar(t[i + j - 1]) = k[j]

HasTrigger(t) ==
  \E k \in Triggers : \E i \in 1..Len(t) : OccursAt(t, k, i)

\* C7: for a non-empty conversation /analyze-question answers 200 with
\* is_direct_answer_request true exactly when the last message's text holds
\* one of the five trigger phrases at some position, whatever the letter
\* case, and with the recommendation that goes with that value.
C7_AnalyzeReportsTrigger ==
  (endpoint = "analyze-question" /\ messages # <<>>) =>
    /\ response.status = 200
    /\ response.body.is_direct_answer_request = HasTrigger(LastMessage.content)
    /\ response.body.is_direct_answer_request = detect_cheating_attempt(LastMessage.content)
    /\ response.body.recommendation =
         IF HasTrigger(LastMessage.content)
         THEN "Reframe as learning opportunity"
         ELSE "Safe to answer educationally"

\* an upper-case phrase inside longer words is reported
C7_Witness ==
  /\ endpoint = "analyze-question"
  /\ messages # <<>>
  /\ response.status = 200
  /\ LastMessage.content = <<"r", "e", "S", "O", "L", "V", "E", " ", "T", "H", "I", "S", "t", "l", "e">>
  /\ response.body.is_direct_answer_request
  /\ response.body.recommendation = "Reframe as learning opportunity"

\* C8: one /chat request makes exactly 1 collaborator call when it passes
\* validation and 0 when it does not.
C8_OneCallPerValidChat ==
  endpoint = "chat" => Len(calls) = (IF Malformed THEN 0 ELSE 1)

\* C10: for a valid /chat request the collaborator receives the request's
\* temperature and max_tokens whenever the request supplies them (0
\* included), the configured defaults when the field is omitted or null, and
\* always the configured top_p and top_k.
C10_SamplingParametersForwarded ==
  ValidChat =>
    /\ Len(calls) = 1
    /\ calls[1].temperature =
         (IF body.has_temperature /\ body.temperature # None
          THEN body.temperature[1] ELSE TEMPERATURE)
    /\ calls[1].max_tokens =
         (IF body.has_max_tokens /\ body.max_tokens # None
          THEN body.max_tokens[1] ELSE MAX_TOKENS)
    /\ calls[1].top_p = TOP_P
    /\ calls[1].top_k = TOP_K

====
